---- MODULE Spec2Model ----
(***************************************************************************)
(* A model of the file organizer (script.py) and of the directory          *)
(* flattener (deorganizer.py).                                             *)
(*                                                                         *)
(* Filenames, keys, patterns and folder names are sequences of ASCII       *)
(* codes, so that the character classes of the regular expressions, the    *)
(* case conversions and Python's string ordering are computed as the code  *)
(* computes them.  Str(<<"a", "1">>) writes such a sequence down.          *)
(***************************************************************************)
EXTENDS Integers, Sequences, FiniteSets, TLC

VARIABLES
    \* get_file_base_name applied once and twice (SpecNorm)
    nf, key1, key2, npc,
    \* the folder: its files and directories now, and when the task started
    fs_files, fs_dirs, fs_files0, fs_dirs0,
    \* the task that runs on it, where it is, and its dry_run argument
    task, pc, dry_run,
    \* group_files_by_similarity: its arguments and local variables
    file_names, similarity_threshold, max_groups, min_files_per_group,
    similarity_groups, pattern_groups, final_groups, unique_groups,
    file_infos, processed_count,
    \* flatten_directory: its local variables
    files_to_move, moved_files, failed_files,
    \* what became of each file of the batch so far, and how many moves the
    \* file system has refused
    outcomes, failures,
    \* the tasks that the window has started in threads of their own, each
    \* with its local variables (SpecThreads)
    workers,
    \* the scored patterns of extract_common_patterns
    patterns,
    \* get_unique_filename: its argument and local variables, and where it is
    \* (SpecUnique)
    destination_path, counter, new_path, upc

normVars == <<nf, key1, key2, npc>>
fsVars == <<fs_files, fs_dirs>>
startVars == <<fs_files0, fs_dirs0, task, dry_run>>
argVars == <<file_names, similarity_threshold, max_groups, min_files_per_group>>
planVars == <<similarity_groups, pattern_groups, final_groups, unique_groups>>
loopVars == <<file_infos, processed_count, outcomes, failures>>
flattenVars == <<files_to_move, moved_files, failed_files>>
organizeVars == <<argVars, planVars, file_infos, processed_count>>
uniqueVars == <<destination_path, counter, new_path, upc>>
vars ==
    <<normVars, fsVars, startVars, pc, argVars, planVars, loopVars, flattenVars,
      workers, patterns, uniqueVars>>

----------------------------------------------------------------------------
(* Characters *)

LowerChars == <<"a","b","c","d","e","f","g","h","i","j","k","l","m",
                "n","o","p","q","r","s","t","u","v","w","x","y","z">>
UpperChars == <<"A","B","C","D","E","F","G","H","I","J","K","L","M",
                "N","O","P","Q","R","S","T","U","V","W","X","Y","Z">>
DigitChars == <<"0","1","2","3","4","5","6","7","8","9">>

IndexIn(seq, c) == CHOOSE i \in DOMAIN seq : seq[i] = c
InSeq(seq, c) == \E i \in DOMAIN seq : seq[i] = c

\* The ASCII code of a one-character string.
Ord(c) ==
    IF InSeq(LowerChars, c) THEN 96 + IndexIn(LowerChars, c)
    ELSE IF InSeq(UpperChars, c) THEN 64 + IndexIn(UpperChars, c)
    ELSE IF InSeq(DigitChars, c) THEN 47 + IndexIn(DigitChars, c)
    ELSE CASE c = " " -> 32
           [] c = "(" -> 40
           [] c = ")" -> 41
           [] c = "-" -> 45
           [] c = "." -> 46
           [] c = "_" -> 95

Str(s) == [i \in 1..Len(s) |-> Ord(s[i])]

SPACE == 32
DOT == 46
UNDERSCORE == 95
HYPHEN == 45

IsDigit(c) == c >= 48 /\ c <= 57
IsUpper(c) == c >= 65 /\ c <= 90
IsLower(c) == c >= 97 /\ c <= 122
IsAlpha(c) == IsUpper(c) \/ IsLower(c)
\* \s of the re module, on ASCII: space, \t \n \v \f \r, and \x1c-\x1f
IsSpace(c) == c = 32 \/ (c >= 9 /\ c <= 13) \/ (c >= 28 /\ c <= 31)
\* \w of the re module, on ASCII
IsWordChar(c) == IsAlpha(c) \/ IsDigit(c) \/ c = UNDERSCORE

\* The character classes of the regular expressions, as predicates and as
\* sets of codes.
Ascii == 0..127

\* [\d_\-\s()\[\]@#$%^&*!~+=|{}:;\'"<>?/,] of get_file_base_name
IsNormSep(c) ==
    \/ IsDigit(c)
    \/ IsSpace(c)
    \/ c \in {95, 45, 40, 41, 91, 93, 64, 35, 36, 37, 94, 38, 42, 33, 126,
              43, 61, 124, 123, 125, 58, 59, 39, 34, 60, 62, 63, 47, 44}
\* [a-z0-9] and [_\-\s] of extract_common_patterns
IsLowerAlnum(c) == IsLower(c) \/ IsDigit(c)
IsJoiner(c) == c = UNDERSCORE \/ c = HYPHEN \/ IsSpace(c)
\* sanitize_folder_name: [^a-zA-Z0-9\s] is made a space and then \s+ one
\* space, so that every run of these characters becomes one space
IsAlnum(c) == IsAlpha(c) \/ IsDigit(c)
NotFolderChar(c) == ~IsAlnum(c)
\* [\d_\-\s()] of create_group_name_from_files
IsNameSep(c) ==
    IsDigit(c) \/ IsSpace(c) \/ c \in {UNDERSCORE, HYPHEN, 40, 41}

NormSepChars == {c \in Ascii : IsNormSep(c)}
WordChars == {c \in Ascii : IsWordChar(c)}
SpaceChars == {c \in Ascii : IsSpace(c)}
LowerAlnumChars == {c \in Ascii : IsLowerAlnum(c)}
JoinerChars == {c \in Ascii : IsJoiner(c)}
NotFolderChars == {c \in Ascii : NotFolderChar(c)}
NamePartChars == {c \in Ascii : ~IsNameSep(c)}

\* str.lower() and str.upper(), one character
LowerC(c) == IF IsUpper(c) THEN c + 32 ELSE c
UpperC(c) == IF IsLower(c) THEN c - 32 ELSE c
Lower(s) == [i \in 1..Len(s) |-> LowerC(s[i])]

\* Python's string comparison s < t (code points, then length)
RECURSIVE StrLess(_, _)
StrLess(s, t) ==
    IF t = <<>> THEN FALSE
    ELSE IF s = <<>> THEN TRUE
    ELSE IF Head(s) # Head(t) THEN Head(s) < Head(t)
    ELSE StrLess(Tail(s), Tail(t))

\* min() of a non-empty list of strings
MinStr(files) ==
    CHOOSE f \in {files[i] : i \in DOMAIN files} :
        \A g \in {files[i] : i \in DOMAIN files} : g = f \/ StrLess(f, g)

\* str.strip(): leading and trailing whitespace removed
RECURSIVE LStrip(_)
LStrip(s) == IF s # <<>> /\ IsSpace(Head(s)) THEN LStrip(Tail(s)) ELSE s
RECURSIVE RStrip(_)
RStrip(s) ==
    IF s # <<>> /\ IsSpace(s[Len(s)]) THEN RStrip(SubSeq(s, 1, Len(s) - 1)) ELSE s
Strip(s) == RStrip(LStrip(s))

\* re.sub(r'[class]+', ' ', s): every maximal run of class characters becomes
\* one space.  InClass is the character class.
RECURSIVE SubRuns(_, _, _)
SubRuns(class, s, inRun) ==
    IF s = <<>> THEN <<>>
    ELSE IF Head(s) \in class
         THEN (IF inRun THEN <<>> ELSE <<SPACE>>) \o SubRuns(class, Tail(s), TRUE)
         ELSE <<Head(s)>> \o SubRuns(class, Tail(s), FALSE)

----------------------------------------------------------------------------
(* os.path.splitext *)

\* the index of the last '.', 0 when there is none (str.rfind)
RECURSIVE RFindDot(_)
RFindDot(p) ==
    IF p = <<>> THEN 0
    ELSE IF p[Len(p)] = DOT THEN Len(p)
    ELSE RFindDot(SubSeq(p, 1, Len(p) - 1))

\* The extension starts at the last dot, unless only dots precede that dot.
SplitDot(p) ==
    LET d == RFindDot(p)
    IN IF d > 0 /\ \E i \in 1..(d - 1) : p[i] # DOT THEN d ELSE 0

\* SplitextRoot cutting at the last dot even when only dots precede it
SplitextRoot_LastDot(p) ==
    IF RFindDot(p) = 0 THEN p ELSE SubSeq(p, 1, RFindDot(p) - 1)

\* os.path.splitext(p)[0], for a name with no directory separator
SplitextRoot(p) ==
    IF SplitDot(p) = 0 THEN p ELSE SubSeq(p, 1, SplitDot(p) - 1)

----------------------------------------------------------------------------
(* get_file_base_name *)


get_file_base_name(filename) ==
    Strip(SubRuns(NormSepChars, Lower(SplitextRoot(filename)), FALSE))

----------------------------------------------------------------------------
(* Python dicts keep insertion order: a dict is a sequence of <<key, value>> *)

DictKeys(d) == {d[i][1] : i \in DOMAIN d}
DictHas(d, k) == \E i \in DOMAIN d : d[i][1] = k
DictGet(d, k) == d[CHOOSE i \in DOMAIN d : d[i][1] = k][2]
\* d[k] = v: an existing key keeps its place, a new key goes last
DictSet(d, k, v) ==
    IF DictHas(d, k)
    THEN [i \in DOMAIN d |-> IF d[i][1] = k THEN <<k, v>> ELSE d[i]]
    ELSE Append(d, <<k, v>>)

SeqSet(s) == {s[i] : i \in DOMAIN s}

\* [x for x in s if x not in excluded]
RECURSIVE Without(_, _)
Without(s, excluded) ==
    IF s = <<>> THEN <<>>
    ELSE IF Head(s) \in excluded THEN Without(Tail(s), excluded)
    ELSE <<Head(s)>> \o Without(Tail(s), excluded)

\* list.sort(key=..., reverse=True) and sorted(..., reverse=True): stable,
\* descending by Key
\* the sort key of an entry <<name, value>>: the value, or its length
SortKey(by, entry) == IF by = "len" THEN Len(entry[2]) ELSE entry[2]

RECURSIVE InsertDesc(_, _, _)
InsertDesc(by, sorted, x) ==
    IF sorted = <<>> THEN <<x>>
    ELSE IF SortKey(by, Head(sorted)) >= SortKey(by, x)
         THEN <<Head(sorted)>> \o InsertDesc(by, Tail(sorted), x)
         ELSE <<x>> \o sorted
RECURSIVE SortDesc(_, _, _)
SortDesc(by, s, acc) ==
    IF s = <<>> THEN acc
    ELSE SortDesc(by, Tail(s), InsertDesc(by, acc, Head(s)))

----------------------------------------------------------------------------
(* difflib.SequenceMatcher(None, a, b).ratio(), for strings shorter than    *)
(* the 200 characters at which the autojunk heuristic starts                *)

\* the length of the common run of a from i and b from j
RECURSIVE CommonLen(_, _, _, _)
CommonLen(a, b, i, j) ==
    IF i > Len(a) \/ j > Len(b) \/ a[i] # b[j] THEN 0
    ELSE 1 + CommonLen(a, b, i + 1, j + 1)

\* find_longest_match: the longest block, of those the earliest in a, of
\* those the earliest in b; <<i, j, size>>
LongestMatch(a, b) ==
    LET blocks == {<<i, j, CommonLen(a, b, i, j)>> : i \in DOMAIN a, j \in DOMAIN b}
        best == CHOOSE x \in blocks :
                    \A y \in blocks :
                        \/ x[3] > y[3]
                        \/ x[3] = y[3] /\ x[1] < y[1]
                        \/ x[3] = y[3] /\ x[1] = y[1] /\ x[2] <= y[2]
    IN best

\* get_matching_blocks: the total size of the blocks, found by recursing to
\* the left and to the right of the longest one
RECURSIVE MatchCount(_, _)
MatchCount(a, b) ==
    IF a = <<>> \/ b = <<>> THEN 0
    ELSE LET m == LongestMatch(a, b)
         IN IF m[3] = 0 THEN 0
            ELSE m[3]
                 + MatchCount(SubSeq(a, 1, m[1] - 1), SubSeq(b, 1, m[2] - 1))
                 + MatchCount(SubSeq(a, m[1] + m[3], Len(a)),
                              SubSeq(b, m[2] + m[3], Len(b)))

\* RatioAtLeast with the ratio of two empty strings taken as 0
RatioAtLeast_EmptyZero(a, b, thr) ==
    IF Len(a) + Len(b) = 0 THEN thr[1] <= 0
    ELSE 2 * MatchCount(a, b) * thr[2] >= thr[1] * (Len(a) + Len(b))

\* RatioAtLeast with the threshold itself left out
RatioAtLeast_Strict(a, b, thr) ==
    IF Len(a) + Len(b) = 0 THEN thr[2] > thr[1]
    ELSE 2 * MatchCount(a, b) * thr[2] > thr[1] * (Len(a) + Len(b))

\* ratio() >= threshold, the threshold being the fraction thr[1] / thr[2];
\* ratio() is 2.0 * matches / (len(a) + len(b)), and 1.0 for two empty strings
RatioAtLeast(a, b, thr) ==
    IF Len(a) + Len(b) = 0 THEN thr[2] >= thr[1]
    ELSE 2 * MatchCount(a, b) * thr[2] >= thr[1] * (Len(a) + Len(b))

----------------------------------------------------------------------------
(* find_similar_files *)

\* name_groups: the files of each non-empty key, keys in order of first use
RECURSIVE GroupByKey(_, _)
GroupByKey(files, groups) ==
    IF files = <<>> THEN groups
    ELSE LET base == get_file_base_name(Head(files))
         IN IF base = <<>> THEN GroupByKey(Tail(files), groups)
            ELSE GroupByKey(Tail(files),
                     DictSet(groups, base,
                         IF DictHas(groups, base)
                         THEN Append(DictGet(groups, base), Head(files))
                         ELSE <<Head(files)>>))

\* GroupKey taking the first file of the group
GroupKey_First(files) == files[1]

\* group_key = min(files)
GroupKey(files) == MinStr(files)

\* first pass: a group for every key that two or more files share
RECURSIVE ExactGroups(_, _)
ExactGroups(name_groups, groups) ==
    IF name_groups = <<>> THEN groups
    ELSE LET files == Head(name_groups)[2]
         IN IF Len(files) >= 2
            THEN ExactGroups(Tail(name_groups), DictSet(groups, GroupKey(files), files))
            ELSE ExactGroups(Tail(name_groups), groups)

GroupedFiles(groups) == UNION {SeqSet(groups[i][2]) : i \in DOMAIN groups}

\* TooDifferentInLength with >= for >
TooDifferentInLength_AtLeast(base1, base2) ==
    LET diff == IF Len(base1) >= Len(base2) THEN Len(base1) - Len(base2)
                ELSE Len(base2) - Len(base1)
        least == IF Len(base1) <= Len(base2) THEN Len(base1) ELSE Len(base2)
    IN diff >= least

\* the length prefilter of the second pass
TooDifferentInLength(base1, base2) ==
    LET diff == IF Len(base1) >= Len(base2) THEN Len(base1) - Len(base2)
                ELSE Len(base2) - Len(base1)
        least == IF Len(base1) <= Len(base2) THEN Len(base1) ELSE Len(base2)
    IN diff > least

\* the inner loop: the later, not yet processed files similar to file1
RECURSIVE SimilarTo(_, _, _, _)
SimilarTo(file1, later, processed, thr) ==
    IF later = <<>> THEN <<>>
    ELSE LET file2 == Head(later)
             base1 == get_file_base_name(file1)
             base2 == get_file_base_name(file2)
             joins == /\ file2 \notin processed
                      /\ ~TooDifferentInLength(base1, base2)
                      /\ RatioAtLeast(base1, base2, thr)
         IN (IF joins THEN <<file2>> ELSE <<>>)
            \o SimilarTo(file1, Tail(later), processed, thr)

\* second pass: every file not yet processed opens a group
RECURSIVE FuzzyGroups(_, _, _, _)
FuzzyGroups(remaining, processed, groups, thr) ==
    IF remaining = <<>> THEN groups
    ELSE LET file1 == Head(remaining)
             current_group ==
                 <<file1>> \o SimilarTo(file1, Tail(remaining), processed, thr)
         IN IF file1 \in processed
            THEN FuzzyGroups(Tail(remaining), processed, groups, thr)
            ELSE IF Len(current_group) > 1
            THEN FuzzyGroups(Tail(remaining),
                             processed \cup SeqSet(current_group),
                             DictSet(groups, GroupKey(current_group), current_group),
                             thr)
            ELSE FuzzyGroups(Tail(remaining), processed, groups, thr)

find_similar_files(files, thr) ==
    LET exact == ExactGroups(GroupByKey(files, <<>>), <<>>)
        processed == GroupedFiles(exact)
        remaining == Without(files, processed)
    IN FuzzyGroups(remaining, processed, exact, thr)

----------------------------------------------------------------------------
(* extract_common_patterns *)

\* the maximal runs of InRun characters of s, as <<first, last>> index pairs
RECURSIVE RunsFrom(_, _, _, _)
RunsFrom(class, s, i, start) ==
    IF i > Len(s) THEN (IF start > 0 THEN <<<<start, Len(s)>>>> ELSE <<>>)
    ELSE IF s[i] \in class
         THEN RunsFrom(class, s, i + 1, IF start > 0 THEN start ELSE i)
         ELSE (IF start > 0 THEN <<<<start, i - 1>>>> ELSE <<>>)
              \o RunsFrom(class, s, i + 1, 0)
Runs(class, s) == RunsFrom(class, s, 1, 0)

\* how many of the runs after run r join it, each across a gap made of InGap
\* characters only, at most budget of them (a greedy {0,budget} repetition)
RECURSIVE Chain(_, _, _, _, _)
Chain(gap, s, runs, r, budget) ==
    IF budget = 0 \/ r >= Len(runs) THEN 0
    ELSE IF \A i \in (runs[r][2] + 1)..(runs[r + 1][1] - 1) : s[i] \in gap
         THEN 1 + Chain(gap, s, runs, r + 1, budget - 1)
         ELSE 0

\* re.findall of "a run of at least minFirst InRun characters, then minExtra
\* to maxExtra times a gap of InGap characters and a run": the matches do not
\* overlap and are found from left to right
RECURSIVE ChainTokens(_, _, _, _, _, _, _)
ChainTokens(gap, s, runs, r, minFirst, minExtra, maxExtra) ==
    IF r > Len(runs) THEN <<>>
    ELSE LET extra == Chain(gap, s, runs, r, maxExtra)
         IN IF runs[r][2] - runs[r][1] + 1 >= minFirst /\ extra >= minExtra
            THEN <<SubSeq(s, runs[r][1], runs[r + extra][2])>>
                 \o ChainTokens(gap, s, runs, r + extra + 1,
                                minFirst, minExtra, maxExtra)
            ELSE ChainTokens(gap, s, runs, r + 1,
                             minFirst, minExtra, maxExtra)


\* re.findall(r'\b\w{n,}\b', base_name)
Words(base_name, n) ==
    ChainTokens({}, base_name, Runs(WordChars, base_name), 1, n, 0, 0)

\* re.findall(r'\b(\w+\s+\w+(?:\s+\w+){0,3})\b', base_name), those of at
\* least n characters
Phrases(base_name, n) ==
    SelectSeq(ChainTokens(SpaceChars, base_name,
                          Runs(WordChars, base_name), 1, 1, 1, 4),
              LAMBDA phrase : Len(phrase) >= n)

\* re.findall(r'([a-z0-9]{n,}(?:[_\-\s]+[a-z0-9]+){1,3})', base_name)
Sequences(base_name, n) ==
    ChainTokens(JoinerChars, base_name,
                Runs(LowerAlnumChars, base_name), 1, n, 1, 3)

\* what one file name adds to the pattern counts, in the order it is added
Candidates(name, min_length) ==
    LET base_name == Lower(SplitextRoot(name))
    IN Words(base_name, min_length) \o Phrases(base_name, min_length)
       \o Sequences(base_name, min_length)

\* patterns[candidate] += 1
RECURSIVE CountAll(_, _)
CountAll(candidates, pattern_counts) ==
    IF candidates = <<>> THEN pattern_counts
    ELSE LET c == Head(candidates)
         IN CountAll(Tail(candidates),
                     DictSet(pattern_counts, c,
                             IF DictHas(pattern_counts, c) THEN DictGet(pattern_counts, c) + 1
                             ELSE 1))

RECURSIVE PatternCounts(_, _, _)
PatternCounts(files, min_length, pattern_counts) ==
    IF files = <<>> THEN pattern_counts
    ELSE PatternCounts(Tail(files), min_length,
                       CountAll(Candidates(Head(files), min_length), pattern_counts))

\* score = (len(pattern) / 20) * min(count / len(file_names), 0.5) * count,
\* here multiplied by 40 * len(file_names), which keeps the order
Score(pattern, count, nfiles) ==
    Len(pattern) * count * (IF 2 * count <= nfiles THEN 2 * count ELSE nfiles)

\* the <<pattern, score>> pairs, by descending score
extract_common_patterns(files, min_length) ==
    LET pattern_counts == PatternCounts(files, min_length, <<>>)
        kept == SelectSeq(pattern_counts,
                    LAMBDA entry : entry[2] >= 2 /\ Len(entry[1]) >= min_length)
        relevance_scores ==
            [i \in DOMAIN kept |->
                <<kept[i][1], Score(kept[i][1], kept[i][2], Len(files))>>]
    IN SortDesc("value", relevance_scores, <<>>)

----------------------------------------------------------------------------
(* sanitize_folder_name and create_group_name_from_files *)


\* word.capitalize() of every word of a string whose words are separated by
\* single spaces
CapitalizeWords(s) ==
    [i \in 1..Len(s) |->
        IF i = 1 \/ s[i - 1] = SPACE THEN UpperC(s[i]) ELSE LowerC(s[i])]

\* str.title(): a letter after a letter is lower-cased, any other letter is
\* upper-cased
Title(s) ==
    [i \in 1..Len(s) |->
        IF i > 1 /\ IsAlpha(s[i - 1]) THEN LowerC(s[i]) ELSE UpperC(s[i])]

\* str(n) of a natural number
RECURSIVE DecStr(_)
DecStr(n) == IF n < 10 THEN <<48 + n>> ELSE DecStr(n \div 10) \o <<48 + (n % 10)>>

RECURSIVE SumCodes(_)
SumCodes(s) == IF s = <<>> THEN 0 ELSE Head(s) + SumCodes(Tail(s))

\* "Group_" + str(hash(folder_name) % 10000).  The hash of a str is fixed
\* within one interpreter process only; the sum of the code points stands for
\* it here.
GroupHashName(folder_name) ==
    Str(<<"G","r","o","u","p","_">>) \o DecStr(SumCodes(folder_name) % 10000)

\* the name with every character outside [a-zA-Z0-9\s] made a space, runs of
\* whitespace made one space, trimmed, and each word capitalized
SanitizedWords(folder_name) ==
    CapitalizeWords(Strip(SubRuns(NotFolderChars, folder_name, FALSE)))

sanitize_folder_name(folder_name) ==
    LET sanitized == SanitizedWords(folder_name)
    IN IF sanitized = <<>> \/ Len(sanitized) > 255
       THEN GroupHashName(folder_name)
       ELSE sanitized

\* re.sub(r'[\d_\-\s()]+', ' ', base_name).split()
NameParts(file) ==
    LET base_name == SplitextRoot(file)
        runs == Runs(NamePartChars, base_name)
    IN [i \in DOMAIN runs |-> SubSeq(base_name, runs[i][1], runs[i][2])]

RECURSIVE CommonParts(_)
CommonParts(files) ==
    IF files = <<>> THEN <<>> ELSE NameParts(Head(files)) \o CommonParts(Tail(files))

RECURSIVE JoinWith(_, _)
JoinWith(parts, sep) ==
    IF parts = <<>> THEN <<>>
    ELSE IF Len(parts) = 1 THEN Head(parts)
    ELSE Head(parts) \o <<sep>> \o JoinWith(Tail(parts), sep)

Prefix(s, n) == SubSeq(s, 1, IF Len(s) < n THEN Len(s) ELSE n)

create_group_name_from_files(files) ==
    IF files = <<>> THEN Str(<<"M","i","s","c","e","l","l","a","n","e","o","u","s">>)
    ELSE
    LET long_words == SelectSeq(CommonParts(files), LAMBDA word : Len(word) >= 3)
        word_counts == CountAll([i \in DOMAIN long_words |-> Lower(long_words[i])], <<>>)
        common_words == SortDesc("value", word_counts, <<>>)
        top == Prefix(common_words, 3)
        name_parts == [i \in DOMAIN top |-> Title(top[i][1])]
    IN IF word_counts = <<>>
       THEN Prefix(SplitextRoot(MinStr(files)), 30)
       ELSE Prefix(JoinWith(name_parts, UNDERSCORE), 50)

----------------------------------------------------------------------------
(* group_files_by_similarity: the grouping plan *)

min_pattern_length == 3

Miscellaneous == Str(<<"M","i","s","c","e","l","l","a","n","e","o","u","s">>)

\* sub in s
Contains(s, sub) ==
    \E i \in 0..(Len(s) - Len(sub)) : SubSeq(s, i + 1, i + Len(sub)) = sub

\* AssignPattern without the test that skips a file already assigned
RECURSIVE AssignPattern_NoSkip(_, _, _, _)
AssignPattern_NoSkip(pattern, files, pgroups, remaining_processed) ==
    IF files = <<>> THEN <<pgroups, remaining_processed>>
    ELSE LET file == Head(files)
             sanitized_pattern == sanitize_folder_name(pattern)
         IN IF Contains(Lower(file), pattern) /\ sanitized_pattern # <<>>
            THEN AssignPattern_NoSkip(pattern, Tail(files),
                     DictSet(pgroups, sanitized_pattern,
                         IF DictHas(pgroups, sanitized_pattern)
                         THEN Append(DictGet(pgroups, sanitized_pattern), file)
                         ELSE <<file>>),
                     remaining_processed \cup {file})
            ELSE AssignPattern_NoSkip(pattern, Tail(files), pgroups,
                                      remaining_processed)

\* one pattern over the remaining files: <<pgroups, remaining_processed>>
RECURSIVE AssignPattern(_, _, _, _)
AssignPattern(pattern, files, pgroups, remaining_processed) ==
    IF files = <<>> THEN <<pgroups, remaining_processed>>
    ELSE LET file == Head(files)
             sanitized_pattern == sanitize_folder_name(pattern)
         IN IF file \notin remaining_processed /\ Contains(Lower(file), pattern)
                /\ sanitized_pattern # <<>>
            THEN AssignPattern(pattern, Tail(files),
                     DictSet(pgroups, sanitized_pattern,
                         IF DictHas(pgroups, sanitized_pattern)
                         THEN Append(DictGet(pgroups, sanitized_pattern), file)
                         ELSE <<file>>),
                     remaining_processed \cup {file})
            ELSE AssignPattern(pattern, Tail(files), pgroups, remaining_processed)

\* the patterns in order of relevance, each over the remaining files
RECURSIVE AssignPatterns(_, _, _, _)
AssignPatterns(scored, files, pgroups, remaining_processed) ==
    IF scored = <<>> THEN pgroups
    ELSE LET r == AssignPattern(Head(scored)[1], files, pgroups,
                                remaining_processed)
         IN AssignPatterns(Tail(scored), files, r[1], r[2])

\* similarity_groups[pattern] = files, for every pattern group
RECURSIVE AddGroups(_, _)
AddGroups(similarity, pgroups) ==
    IF pgroups = <<>> THEN similarity
    ELSE LET g == Head(pgroups)
         IN IF g[2] # <<>>
            THEN AddGroups(DictSet(similarity, g[1], g[2]), Tail(pgroups))
            ELSE AddGroups(similarity, Tail(pgroups))

\* the pattern groups of the files no similarity group holds, before the
\* small ones are dropped
PatternGroups(similarity, files, maxg) ==
    LET remaining_files == Without(files, GroupedFiles(similarity))
        scored == extract_common_patterns(remaining_files, min_pattern_length)
    IN AssignPatterns(Prefix(scored, maxg), remaining_files, <<>>, {})

\* patterns = extract_common_patterns(remaining_files, min_pattern_length),
\* when there are remaining files
RemainingPatterns(similarity, files) ==
    extract_common_patterns(Without(files, GroupedFiles(similarity)),
                            min_pattern_length)

\* the pattern groups that are large enough, added to the similarity groups
WithPatternGroups(similarity, files, maxg, minf) ==
    AddGroups(similarity,
              SelectSeq(PatternGroups(similarity, files, maxg),
                        LAMBDA g : Len(g[2]) >= minf))

\* the folder name of a group: made from its files when its key is one of the
\* file names, the sanitized key otherwise
GroupName(key, members, files) ==
    IF key \in SeqSet(files)
    THEN sanitize_folder_name(create_group_name_from_files(members))
    ELSE sanitize_folder_name(key)

\* LargeEnough with the default of min_files_per_group written in
LargeEnough_AtLeastTwo(members, minf) == Len(members) >= 2

\* whether a group is large enough to be output
LargeEnough(members, minf) == Len(members) >= minf

\* final_groups[group_name] = files, for every group that is large enough
RECURSIVE NamedGroups(_, _, _, _)
NamedGroups(similarity, files, minf, final) ==
    IF similarity = <<>> THEN final
    ELSE LET key == Head(similarity)[1]
             members == Head(similarity)[2]
         IN IF LargeEnough(members, minf)
            THEN NamedGroups(Tail(similarity), files, minf,
                             DictSet(final, GroupName(key, members, files), members))
            ELSE NamedGroups(Tail(similarity), files, minf, final)

\* WithMiscellaneous asking two files of the bucket, as of a group
WithMiscellaneous_AtLeastTwo(final, files) ==
    LET misc_files == Without(files, GroupedFiles(final))
    IN IF Len(misc_files) >= 2 THEN DictSet(final, Miscellaneous, misc_files)
       ELSE final

\* the files of no final group go to "Miscellaneous"
WithMiscellaneous(final, files) ==
    LET misc_files == Without(files, GroupedFiles(final))
    IN IF misc_files # <<>> THEN DictSet(final, Miscellaneous, misc_files)
       ELSE final

\* the second and later groups of one name get " 2", " 3", ...
RECURSIVE Numbered(_, _, _)
Numbered(sorted, group_counters, unique) ==
    IF sorted = <<>> THEN unique
    ELSE LET base_group_name == Head(sorted)[1]
             count == IF DictHas(group_counters, base_group_name)
                      THEN DictGet(group_counters, base_group_name) + 1
                      ELSE 1
             group_name == IF count > 1
                           THEN base_group_name \o <<SPACE>> \o DecStr(count)
                           ELSE base_group_name
         IN Numbered(Tail(sorted),
                     DictSet(group_counters, base_group_name, count),
                     DictSet(unique, group_name, Head(sorted)[2]))

UniqueGroups(final) ==
    Numbered(SortDesc("len", final, <<>>), <<>>, <<>>)

\* [(file, group_name) for every group, for every file of it]
RECURSIVE FileInfos(_)
FileInfos(unique) ==
    IF unique = <<>> THEN <<>>
    ELSE [i \in DOMAIN Head(unique)[2] |-> <<Head(unique)[2][i], Head(unique)[1]>>]
         \o FileInfos(Tail(unique))

----------------------------------------------------------------------------
(* The file system below the folder: a path is <<directory, name>>, where   *)
(* the directory is the sequence of directory names that leads to it from   *)
(* the folder, <<>> for the folder itself.  files maps the path of every    *)
(* file to its content, dirs are the directories below the folder.          *)

Top == <<>>

\* PathExists seeing the files only, as os.path.isfile does
PathExists_FilesOnly(files, dirs, path) == path \in DOMAIN files

\* os.path.exists
PathExists(files, dirs, path) ==
    path \in DOMAIN files \/ Append(path[1], path[2]) \in dirs

\* os.path.splitext(p)[1]
SplitextExt(p) ==
    IF SplitDot(p) = 0 THEN <<>> ELSE SubSeq(p, SplitDot(p), Len(p))

\* new_path: f"{name} ({counter}){extension}" in the directory of the path
NewPath(path, n) ==
    LET new_filename == SplitextRoot(path[2]) \o Str(<<" ", "(">>) \o DecStr(n)
                        \o Str(<<")">>) \o SplitextExt(path[2])
    IN <<path[1], new_filename>>

\* the loop of get_unique_filename: the first "name (counter)extension" that
\* does not exist
RECURSIVE FirstFree(_, _, _, _)
FirstFree(files, dirs, path, n) ==
    IF ~PathExists(files, dirs, NewPath(path, n)) THEN NewPath(path, n)
    ELSE FirstFree(files, dirs, path, n + 1)

get_unique_filename(files, dirs, path) ==
    IF ~PathExists(files, dirs, path) THEN path
    ELSE FirstFree(files, dirs, path, 1)

\* os.makedirs(group_folder, exist_ok=True): FileExistsError when a file has
\* the name
MakeDir(files, dirs, name) ==
    IF <<Top, name>> \in DOMAIN files THEN dirs ELSE dirs \cup {<<name>>}

\* whether shutil.move(source, dest) can work at all: the source is there and
\* so is the directory of the destination
CanMove(files, dirs, source, dest) ==
    /\ source \in DOMAIN files
    /\ dest[1] = Top \/ dest[1] \in dirs

\* shutil.move(source, dest) of a file: a rename, which replaces a file that
\* is at dest
Move(files, source, dest) ==
    [path \in (DOMAIN files \ {source}) \cup {dest} |->
        IF path = dest THEN files[source] ELSE files[path]]

\* MoveWanted without the dry-run test
MoveWanted_IgnoresDryRun(dry, source_path, dest_path) == source_path # dest_path

\* whether process_file moves the file at all
MoveWanted(dry, source_path, dest_path) == ~dry /\ source_path # dest_path

\* process_file with no except clause: the error of a refused move goes up
\* to the caller
process_file_Uncaught(files, dirs, file_info, dry, refused) ==
    LET file_name == file_info[1]
        group_folder_name == IF file_info[2] = <<>> THEN Miscellaneous ELSE file_info[2]
        source_path == <<Top, file_name>>
        first_path == <<<<group_folder_name>>, file_name>>
        dest_path == IF PathExists(files, dirs, first_path) /\ source_path # first_path
                     THEN get_unique_filename(files, dirs, first_path)
                     ELSE first_path
        made == MakeDir(files, dirs, group_folder_name)
    IN IF MoveWanted(dry, source_path, dest_path)
       THEN IF refused \/ ~CanMove(files, made, source_path, dest_path)
            THEN <<files, made, "raised">>
            ELSE <<Move(files, source_path, dest_path), made, "True">>
       ELSE <<files, dirs, IF dry THEN "Skipped (dry run)" ELSE "No action needed">>

\* process_file: <<files, dirs, status>> after it.  refused: the file system
\* refuses this move (a permission, a lock, a full disk)
process_file(files, dirs, file_info, dry, refused) ==
    LET file_name == file_info[1]
        group_folder_name == IF file_info[2] = <<>> THEN Miscellaneous ELSE file_info[2]
        source_path == <<Top, file_name>>
        first_path == <<<<group_folder_name>>, file_name>>
        dest_path == IF PathExists(files, dirs, first_path) /\ source_path # first_path
                     THEN get_unique_filename(files, dirs, first_path)
                     ELSE first_path
        made == MakeDir(files, dirs, group_folder_name)
    IN IF MoveWanted(dry, source_path, dest_path)
       THEN IF refused \/ ~CanMove(files, made, source_path, dest_path)
            THEN <<files, made, "Error">>
            ELSE <<Move(files, source_path, dest_path), made, "True">>
       ELSE <<files, dirs, IF dry THEN "Skipped (dry run)" ELSE "No action needed">>

\* os.makedirs for every group of the plan
RECURSIVE MakeDirs(_, _, _)
MakeDirs(files, dirs, unique) ==
    IF unique = <<>> THEN dirs
    ELSE MakeDirs(files, MakeDir(files, dirs, Head(unique)[1]), Tail(unique))

----------------------------------------------------------------------------
(* Directory listings: os.listdir and os.walk give the entries of a          *)
(* directory in an order the file system chooses                             *)

RECURSIVE Perms(_)
Perms(S) ==
    IF S = {} THEN {<<>>}
    ELSE UNION {{<<x>> \o rest : rest \in Perms(S \ {x})} : x \in S}

TopFiles(files) == {path[2] : path \in {q \in DOMAIN files : q[1] = Top}}

Children(dirs, d) ==
    {c \in dirs : Len(c) = Len(d) + 1 /\ SubSeq(c, 1, Len(d)) = d}

\* the files below directory d in the orders of a top-down os.walk: the files
\* of d, then the subdirectories of d one after the other
RECURSIVE WalkOrders(_, _, _)
RECURSIVE WalkAll(_, _, _)
WalkOrders(files, dirs, d) ==
    {here \o below : here \in Perms({q \in DOMAIN files : q[1] = d}),
                     below \in WalkAll(files, dirs, Children(dirs, d))}
WalkAll(files, dirs, ds) ==
    IF ds = {} THEN {<<>>}
    ELSE UNION {{first \o rest : first \in WalkOrders(files, dirs, d),
                                 rest \in WalkAll(files, dirs, ds \ {d})} : d \in ds}

\* whether directory d is a prefix of directory e
IsBelow(e, d) == Len(e) >= Len(d) /\ SubSeq(e, 1, Len(d)) = d

\* the bottom-up rmdir of every empty directory leaves the directories that
\* have a file somewhere below them
AfterRmdirs(files, dirs) ==
    {d \in dirs : \E path \in DOMAIN files : IsBelow(path[1], d)}

----------------------------------------------------------------------------
(* Spec: one task, group_files_by_similarity or flatten_directory, run on   *)
(* a folder                                                                  *)

MaxFiles == 3
MaxFailures == 1

Pool ==
    { Str(<<"r","e","p","-","a","1",".","t","x","t">>),
      Str(<<"r","e","p","-","a","2",".","t","x","t">>),
      Str(<<"r","e","p","-","b","1",".","t","x","t">>),
      Str(<<"x",".","r","e","p",".","d","o","c">>),
      Str(<<"n",".","t","x","t">>) }

\* the example of the specification
ExampleFiles ==
    << Str(<<"v","a","c","a","t","i","o","n","_","p","h","o","t","o","1",".","j","p","g">>),
       Str(<<"v","a","c","a","t","i","o","n","_","p","h","o","t","o","2",".","j","p","g">>),
       Str(<<"i","n","v","o","i","c","e","_","2","0","2","3",".","p","d","f">>),
       Str(<<"i","n","v","o","i","c","e","_","2","0","2","4",".","p","d","f">>),
       Str(<<"r","a","n","d","o","m",".","t","x","t">>) >>

\* two files whose group is named "Miscellaneous", and a third file
MiscFiles ==
    << Str(<<"m","i","s","c","e","l","l","a","n","e","o","u","s","1",".","t","x","t">>),
       Str(<<"m","i","s","c","e","l","l","a","n","e","o","u","s","2",".","t","x","t">>),
       Str(<<"n",".","t","x","t">>) >>

\* two pairs of files whose groups have the same name
TwinFiles ==
    << Str(<<"r","e","p","-","a","1",".","t","x","t">>),
       Str(<<"r","e","p","-","a","2",".","t","x","t">>),
       Str(<<"r","e","p","-","b","1",".","t","x","t">>),
       Str(<<"r","e","p","-","b","2",".","t","x","t">>) >>

TopSets ==
    {S \in SUBSET Pool : Cardinality(S) <= MaxFiles}
    \cup {SeqSet(ExampleFiles), SeqSet(MiscFiles), SeqSet(TwinFiles)}

RepDir == Str(<<"R","e","p">>)
OldDir == Str(<<"o","l","d">>)
RepA1 == Str(<<"r","e","p","-","a","1",".","t","x","t">>)

\* the subdirectories the folder starts with: none, or Rep holding a file, or
\* Rep and Rep/old each holding a file of that name
TreeFiles ==
    { {}, {<<<<RepDir>>, RepA1>>},
      {<<<<RepDir>>, RepA1>>, <<<<RepDir, OldDir>>, RepA1>>} }

DirsOf(paths) ==
    UNION {{SubSeq(path[1], 1, n) : n \in 1..Len(path[1])} : path \in paths}

Thresholds == {<<7, 10>>, <<1, 2>>}
MaxGroupsChoices == {1, 50}
MinFilesChoices == {2, 3}

NormIdle == nf = <<>> /\ key1 = <<>> /\ key2 = <<>> /\ npc = "idle"

UniqueIdle ==
    destination_path = <<>> /\ counter = 0 /\ new_path = <<>> /\ upc = "idle"

FolderIdle ==
    /\ fs_files = <<>> /\ fs_dirs = {} /\ fs_files0 = <<>> /\ fs_dirs0 = {}
    /\ task = "idle" /\ pc = "idle" /\ dry_run = FALSE
    /\ file_names = <<>> /\ similarity_threshold = <<7, 10>>
    /\ max_groups = 50 /\ min_files_per_group = 2
    /\ similarity_groups = <<>> /\ pattern_groups = <<>>
    /\ final_groups = <<>> /\ unique_groups = <<>>
    /\ file_infos = <<>> /\ processed_count = 0
    /\ files_to_move = <<>> /\ moved_files = 0 /\ failed_files = 0
    /\ outcomes = <<>> /\ failures = 0
    /\ workers = <<>>
    /\ patterns = <<>>
    /\ UniqueIdle

\* every file holds its own content, named here by the path it starts at
Init ==
    /\ NormIdle
    /\ \E top \in TopSets, tree \in TreeFiles :
          LET paths == {<<Top, f>> : f \in top} \cup tree
          IN /\ fs_files = [path \in paths |-> path]
             /\ fs_dirs = DirsOf(tree)
    /\ fs_files0 = fs_files /\ fs_dirs0 = fs_dirs
    /\ task = "none" /\ pc = "ready" /\ dry_run = FALSE
    /\ file_names = <<>> /\ similarity_threshold = <<7, 10>>
    /\ max_groups = 50 /\ min_files_per_group = 2
    /\ similarity_groups = <<>> /\ pattern_groups = <<>>
    /\ final_groups = <<>> /\ unique_groups = <<>>
    /\ file_infos = <<>> /\ processed_count = 0
    /\ files_to_move = <<>> /\ moved_files = 0 /\ failed_files = 0
    /\ outcomes = <<>> /\ failures = 0
    /\ workers = <<>>
    /\ patterns = <<>>
    /\ UniqueIdle

\* group_files_by_similarity is called: it lists the files of the folder
StartOrganize ==
    /\ task = "none"
    /\ \E listing \in Perms(TopFiles(fs_files)), thr \in Thresholds,
          maxg \in MaxGroupsChoices, minf \in MinFilesChoices, dry \in BOOLEAN :
          /\ file_names' = listing
          /\ similarity_threshold' = thr
          /\ max_groups' = maxg
          /\ min_files_per_group' = minf
          /\ dry_run' = dry
          /\ pc' = IF listing = <<>> THEN "done" ELSE "similar"
    /\ task' = "organize"
    /\ UNCHANGED <<normVars, workers, patterns, uniqueVars, fsVars, fs_files0, fs_dirs0, planVars, loopVars, flattenVars>>

FindSimilar ==
    /\ task = "organize" /\ pc = "similar"
    /\ similarity_groups' = find_similar_files(file_names, similarity_threshold)
    /\ pc' = "patterns"
    /\ UNCHANGED <<normVars, workers, patterns, uniqueVars, fsVars, startVars, argVars, pattern_groups,
                   final_groups, unique_groups, loopVars, flattenVars>>

FindPatterns ==
    /\ task = "organize" /\ pc = "patterns"
    /\ patterns' = RemainingPatterns(similarity_groups, file_names)
    /\ pattern_groups' = PatternGroups(similarity_groups, file_names, max_groups)
    /\ similarity_groups' = WithPatternGroups(similarity_groups, file_names,
                                              max_groups, min_files_per_group)
    /\ pc' = "naming"
    /\ UNCHANGED <<normVars, workers, uniqueVars, fsVars, startVars, argVars, final_groups,
                   unique_groups, loopVars, flattenVars>>

NameGroups ==
    /\ task = "organize" /\ pc = "naming"
    /\ final_groups' = NamedGroups(similarity_groups, file_names,
                                   min_files_per_group, <<>>)
    /\ pc' = "misc"
    /\ UNCHANGED <<normVars, workers, patterns, uniqueVars, fsVars, startVars, argVars, similarity_groups,
                   pattern_groups, unique_groups, loopVars, flattenVars>>

AssignMiscellaneous ==
    /\ task = "organize" /\ pc = "misc"
    /\ final_groups' = WithMiscellaneous(final_groups, file_names)
    /\ pc' = "numbering"
    /\ UNCHANGED <<normVars, workers, patterns, uniqueVars, fsVars, startVars, argVars, similarity_groups,
                   pattern_groups, unique_groups, loopVars, flattenVars>>

NumberGroups ==
    /\ task = "organize" /\ pc = "numbering"
    /\ unique_groups' = UniqueGroups(final_groups)
    /\ pc' = "dirs"
    /\ UNCHANGED <<normVars, workers, patterns, uniqueVars, fsVars, startVars, argVars, similarity_groups,
                   pattern_groups, final_groups, loopVars, flattenVars>>

CreateDirectories ==
    /\ task = "organize" /\ pc = "dirs"
    /\ fs_dirs' = IF dry_run THEN fs_dirs
                  ELSE MakeDirs(fs_files, fs_dirs, unique_groups)
    /\ file_infos' = FileInfos(unique_groups)
    /\ processed_count' = 0
    /\ pc' = "moving"
    /\ UNCHANGED <<normVars, workers, patterns, uniqueVars, fs_files, startVars, argVars, planVars,
                   outcomes, failures, flattenVars>>

\* one turn of the loop over file_infos
ProcessFile ==
    /\ task = "organize" /\ pc = "moving"
    /\ processed_count < Len(file_infos)
    /\ \E refused \in BOOLEAN :
          /\ refused => ~dry_run /\ failures < MaxFailures
          /\ LET file_info == file_infos[processed_count + 1]
                 r == process_file(fs_files, fs_dirs, file_info, dry_run, refused)
             IN /\ fs_files' = r[1]
                /\ fs_dirs' = r[2]
                /\ outcomes' = Append(outcomes, <<file_info[1], r[3]>>)
                /\ IF r[3] = "raised"
                   THEN pc' = "aborted" /\ UNCHANGED processed_count
                   ELSE pc' = pc /\ processed_count' = processed_count + 1
          /\ failures' = IF refused THEN failures + 1 ELSE failures
    /\ UNCHANGED <<normVars, workers, patterns, uniqueVars, startVars, argVars, planVars, file_infos, flattenVars>>

FinishOrganize ==
    /\ task = "organize" /\ pc = "moving"
    /\ processed_count = Len(file_infos)
    /\ pc' = "done"
    /\ UNCHANGED <<normVars, workers, patterns, uniqueVars, fsVars, startVars, argVars, planVars, loopVars, flattenVars>>

\* flatten_directory is called: it walks the subdirectories
StartFlatten ==
    /\ task = "none"
    /\ \E walk \in WalkAll(fs_files, fs_dirs, Children(fs_dirs, Top)),
          dry \in BOOLEAN :
          /\ files_to_move' = [i \in DOMAIN walk |-> <<walk[i], <<Top, walk[i][2]>>>>]
          /\ dry_run' = dry
          /\ pc' = IF walk = <<>> \/ dry THEN "done" ELSE "flattening"
    /\ task' = "flatten"
    /\ moved_files' = 0
    /\ failed_files' = 0
    /\ UNCHANGED <<normVars, workers, patterns, uniqueVars, fsVars, fs_files0, fs_dirs0, argVars, planVars, loopVars>>

\* flatten_move without the test of the destination
flatten_move_Overwrites(files, dirs, pair, refused) ==
    IF refused \/ ~CanMove(files, dirs, pair[1], pair[2])
    THEN <<files, "failed">>
    ELSE <<Move(files, pair[1], pair[2]), "moved">>

\* one turn of the loop over files_to_move: <<files, status>> after it
flatten_move(files, dirs, pair, refused) ==
    LET source_path == pair[1]
        dest_path == IF PathExists(files, dirs, pair[2])
                     THEN get_unique_filename(files, dirs, pair[2])
                     ELSE pair[2]
    IN IF refused \/ ~CanMove(files, dirs, source_path, dest_path)
       THEN <<files, "failed">>
       ELSE <<Move(files, source_path, dest_path), "moved">>

MoveFile ==
    /\ task = "flatten" /\ pc = "flattening"
    /\ moved_files + failed_files < Len(files_to_move)
    /\ \E refused \in BOOLEAN :
          /\ refused => failures < MaxFailures
          /\ LET pair == files_to_move[moved_files + failed_files + 1]
                 r == flatten_move(fs_files, fs_dirs, pair, refused)
             IN /\ fs_files' = r[1]
                /\ outcomes' = Append(outcomes, <<pair[1], r[2]>>)
                /\ moved_files' = IF r[2] = "moved" THEN moved_files + 1 ELSE moved_files
                /\ failed_files' = IF r[2] = "failed" THEN failed_files + 1 ELSE failed_files
                /\ pc' = IF r[2] = "raised" THEN "aborted" ELSE pc
          /\ failures' = IF refused THEN failures + 1 ELSE failures
    /\ UNCHANGED <<normVars, workers, patterns, uniqueVars, fs_dirs, startVars, organizeVars, files_to_move>>

RemoveEmptyDirectories ==
    /\ task = "flatten" /\ pc = "flattening"
    /\ moved_files + failed_files = Len(files_to_move)
    /\ fs_dirs' = AfterRmdirs(fs_files, fs_dirs)
    /\ pc' = "done"
    /\ UNCHANGED <<normVars, workers, patterns, uniqueVars, fs_files, startVars, argVars, planVars, loopVars, flattenVars>>

Next ==
    \/ StartOrganize
    \/ FindSimilar
    \/ FindPatterns
    \/ NameGroups
    \/ AssignMiscellaneous
    \/ NumberGroups
    \/ CreateDirectories
    \/ ProcessFile
    \/ FinishOrganize
    \/ StartFlatten
    \/ MoveFile
    \/ RemoveEmptyDirectories

Spec == Init /\ [][Next]_vars

----------------------------------------------------------------------------
(* SpecThreads: run_flatten starts flatten_directory in a new thread at     *)
(* every click, so that several of them work on one folder at a time.  A    *)
(* thread is at "check" before the os.path.exists of a file's destination   *)
(* and at "move" before its shutil.move.                                     *)

NumThreads == 2
Threads == 1..NumThreads

NTxt == Str(<<"n",".","t","x","t">>)

\* two subdirectories that each hold n.txt, the folder with or without one
ThreadsInit ==
    /\ NormIdle
    /\ \E top \in SUBSET {<<Top, NTxt>>} :
          fs_files = [path \in top \cup {<<<<RepDir>>, NTxt>>, <<<<OldDir>>, NTxt>>}
                        |-> path]
    /\ fs_dirs = {<<RepDir>>, <<OldDir>>}
    /\ fs_files0 = fs_files /\ fs_dirs0 = fs_dirs
    /\ task = "idle" /\ pc = "idle" /\ dry_run = FALSE
    /\ file_names = <<>> /\ similarity_threshold = <<7, 10>>
    /\ max_groups = 50 /\ min_files_per_group = 2
    /\ similarity_groups = <<>> /\ pattern_groups = <<>>
    /\ final_groups = <<>> /\ unique_groups = <<>>
    /\ file_infos = <<>> /\ processed_count = 0
    /\ files_to_move = <<>> /\ moved_files = 0 /\ failed_files = 0
    /\ outcomes = <<>> /\ failures = 0
    /\ workers = [t \in Threads |->
                     [phase |-> "idle", todo |-> <<>>, at |-> 0, dest |-> <<>>]]
    /\ patterns = <<>>
    /\ UniqueIdle

threadFrame ==
    <<normVars, fs_files0, fs_dirs0, task, pc, dry_run, argVars, planVars,
      loopVars, flattenVars, patterns, uniqueVars>>

\* a click on "Flatten Directory" with "Dry Run" off: the thread starts and
\* flatten_directory walks the subdirectories
ClickFlatten(t) ==
    /\ workers[t].phase = "idle"
    /\ \E walk \in WalkAll(fs_files, fs_dirs, Children(fs_dirs, Top)) :
          workers' = [workers EXCEPT ![t] =
              [phase |-> IF walk = <<>> THEN "done" ELSE "check",
               todo |-> [i \in DOMAIN walk |-> <<walk[i], <<Top, walk[i][2]>>>>],
               at |-> 1,
               dest |-> <<>>]]
    /\ UNCHANGED <<fsVars, threadFrame>>

\* the destination of the file at hand: dest_path, or what
\* get_unique_filename gives when dest_path exists
CheckDestination(t) ==
    /\ workers[t].phase = "check"
    /\ LET pair == workers[t].todo[workers[t].at]
       IN workers' = [workers EXCEPT
              ![t].dest = IF PathExists(fs_files, fs_dirs, pair[2])
                          THEN get_unique_filename(fs_files, fs_dirs, pair[2])
                          ELSE pair[2],
              ![t].phase = "move"]
    /\ UNCHANGED <<fsVars, threadFrame>>

\* shutil.move to the destination found, an error when the source is gone;
\* then the next file, or the removal of the empty directories
MoveToDestination(t) ==
    /\ workers[t].phase = "move"
    /\ LET pair == workers[t].todo[workers[t].at]
       IN fs_files' = IF CanMove(fs_files, fs_dirs, pair[1], workers[t].dest)
                      THEN Move(fs_files, pair[1], workers[t].dest)
                      ELSE fs_files
    /\ workers' = [workers EXCEPT
           ![t].at = @ + 1,
           ![t].phase = IF workers[t].at = Len(workers[t].todo)
                        THEN "cleanup" ELSE "check"]
    /\ UNCHANGED <<fs_dirs, threadFrame>>

RemoveDirectories(t) ==
    /\ workers[t].phase = "cleanup"
    /\ fs_dirs' = AfterRmdirs(fs_files, fs_dirs)
    /\ workers' = [workers EXCEPT ![t].phase = "done"]
    /\ UNCHANGED <<fs_files, threadFrame>>

ThreadsNext ==
    \E t \in Threads :
        \/ ClickFlatten(t)
        \/ CheckDestination(t)
        \/ MoveToDestination(t)
        \/ RemoveDirectories(t)

SpecThreads == ThreadsInit /\ [][ThreadsNext]_vars

----------------------------------------------------------------------------
(* SpecSimilar: find_similar_files called on a list of names                *)

MaxListed == 3

\* names with the keys "ab", "aa", "a", "aba", "a" again, "b", and three
\* names whose key is empty
SimilarPool ==
    { Str(<<"a","b">>), Str(<<"a","a">>), Str(<<"a">>), Str(<<"a","b","a">>),
      Str(<<"a","1">>), Str(<<"b">>), Str(<<"1",".","p">>), Str(<<"2",".","t">>),
      Str(<<"3","_">>) }

SimilarThresholds == {<<1, 2>>, <<2, 3>>, <<7, 10>>, <<1, 1>>}

\* the lists of at most n distinct names of a pool, in every order
RECURSIVE ListsUpTo(_, _)
ListsUpTo(pool, n) ==
    IF n = 0 THEN {<<>>}
    ELSE LET shorter == ListsUpTo(pool, n - 1)
         IN shorter \cup {Append(s, f) : s \in shorter, f \in pool}

DistinctLists(pool, n) ==
    {s \in ListsUpTo(pool, n) : s # <<>> /\ Cardinality(SeqSet(s)) = Len(s)}

SimilarInit ==
    /\ NormIdle
    /\ fs_files = <<>> /\ fs_dirs = {} /\ fs_files0 = <<>> /\ fs_dirs0 = {}
    /\ task = "find_similar_files" /\ pc = "called" /\ dry_run = FALSE
    /\ file_names \in DistinctLists(SimilarPool, MaxListed)
    /\ similarity_threshold \in SimilarThresholds
    /\ max_groups = 50 /\ min_files_per_group = 2
    /\ similarity_groups = <<>> /\ pattern_groups = <<>>
    /\ final_groups = <<>> /\ unique_groups = <<>>
    /\ file_infos = <<>> /\ processed_count = 0
    /\ files_to_move = <<>> /\ moved_files = 0 /\ failed_files = 0
    /\ outcomes = <<>> /\ failures = 0
    /\ workers = <<>>
    /\ patterns = <<>>
    /\ UniqueIdle

ReturnSimilar ==
    /\ task = "find_similar_files" /\ pc = "called"
    /\ similarity_groups' = find_similar_files(file_names, similarity_threshold)
    /\ pc' = "returned"
    /\ UNCHANGED <<normVars, workers, patterns, uniqueVars, fsVars, startVars, argVars, pattern_groups,
                   final_groups, unique_groups, loopVars, flattenVars>>

SimilarNext == ReturnSimilar

SpecSimilar == SimilarInit /\ [][SimilarNext]_vars

----------------------------------------------------------------------------
(* SpecPatterns: the pattern step of group_files_by_similarity, on files    *)
(* that no similarity group holds                                           *)

PatternPool ==
    { Str(<<"x","y","z","-","a","b","c","d",".","a">>),
      Str(<<"a","b","c","d","-","k",".","b">>),
      Str(<<"x","y","z",".","m","m","m",".","c">>),
      Str(<<"a","b","c"," ","d","e","f",".","t">>),
      Str(<<"a","b","c","-","a","b","c",".","t">>),
      Str(<<"n",".","t","x","t">>) }

PatternsInit ==
    /\ NormIdle
    /\ fs_files = <<>> /\ fs_dirs = {} /\ fs_files0 = <<>> /\ fs_dirs0 = {}
    /\ task = "patterns" /\ pc = "remaining" /\ dry_run = FALSE
    /\ file_names \in DistinctLists(PatternPool, MaxListed)
    /\ similarity_threshold = <<7, 10>>
    /\ max_groups \in MaxGroupsChoices
    /\ min_files_per_group = 2
    /\ similarity_groups = <<>> /\ pattern_groups = <<>>
    /\ final_groups = <<>> /\ unique_groups = <<>>
    /\ file_infos = <<>> /\ processed_count = 0
    /\ files_to_move = <<>> /\ moved_files = 0 /\ failed_files = 0
    /\ outcomes = <<>> /\ failures = 0
    /\ workers = <<>>
    /\ patterns = <<>>
    /\ UniqueIdle

\* patterns = extract_common_patterns(remaining_files, min_pattern_length)
ExtractPatterns ==
    /\ task = "patterns" /\ pc = "remaining"
    /\ patterns' = RemainingPatterns(similarity_groups, file_names)
    /\ pc' = "extracted"
    /\ UNCHANGED <<normVars, workers, uniqueVars, fsVars, startVars, argVars,
                   planVars, loopVars, flattenVars>>

\* the loop over patterns[:max_groups]
ApplyPatterns ==
    /\ task = "patterns" /\ pc = "extracted"
    /\ pattern_groups' = AssignPatterns(Prefix(patterns, max_groups),
                                        Without(file_names, GroupedFiles(similarity_groups)),
                                        <<>>, {})
    /\ pc' = "assigned"
    /\ UNCHANGED <<normVars, workers, uniqueVars, patterns, fsVars, startVars,
                   argVars, similarity_groups, final_groups, unique_groups,
                   loopVars, flattenVars>>

PatternsNext == ExtractPatterns \/ ApplyPatterns

SpecPatterns == PatternsInit /\ [][PatternsNext]_vars

----------------------------------------------------------------------------
(* SpecUnique: get_unique_filename called on a path of a folder, one step   *)
(* for every test of a path                                                  *)

MaxTaken == 2

NName == Str(<<"n">>)

\* "n (k).txt" and "n (k)"
Numbered_txt(k) == Str(<<"n"," ","(">>) \o DecStr(k) \o Str(<<")",".","t","x","t">>)
Numbered_bare(k) == Str(<<"n"," ","(">>) \o DecStr(k) \o Str(<<")">>)

\* the files the folder may hold, and the directories
UniqueFilePool ==
    {NTxt, NName} \cup {Numbered_txt(k) : k \in 1..MaxTaken}
UniqueDirPool == {<<Numbered_bare(1)>>}

UniqueInit ==
    /\ NormIdle
    /\ \E names \in SUBSET UniqueFilePool :
          fs_files = [path \in {<<Top, f>> : f \in names} |-> path]
    /\ fs_dirs \in SUBSET UniqueDirPool
    /\ fs_files0 = fs_files /\ fs_dirs0 = fs_dirs
    /\ task = "get_unique_filename" /\ pc = "idle" /\ dry_run = FALSE
    /\ file_names = <<>> /\ similarity_threshold = <<7, 10>>
    /\ max_groups = 50 /\ min_files_per_group = 2
    /\ similarity_groups = <<>> /\ pattern_groups = <<>>
    /\ final_groups = <<>> /\ unique_groups = <<>>
    /\ file_infos = <<>> /\ processed_count = 0
    /\ files_to_move = <<>> /\ moved_files = 0 /\ failed_files = 0
    /\ outcomes = <<>> /\ failures = 0
    /\ workers = <<>>
    /\ patterns = <<>>
    /\ destination_path \in {<<Top, NTxt>>, <<Top, NName>>}
    /\ counter = 0 /\ new_path = <<>> /\ upc = "called"

uniqueFrame ==
    <<normVars, workers, patterns, fsVars, startVars, pc, argVars, planVars,
      loopVars, flattenVars, destination_path>>

\* the test of destination_path: it is returned, or the loop starts
UniqueEntry ==
    /\ upc = "called"
    /\ IF ~PathExists(fs_files, fs_dirs, destination_path)
       THEN upc' = "returned" /\ counter' = counter
       ELSE upc' = "loop" /\ counter' = 1
    /\ UNCHANGED <<uniqueFrame, new_path>>

\* one turn of the loop: new_path is returned, or the counter goes up
UniqueTurn ==
    /\ upc = "loop"
    /\ new_path' = NewPath(destination_path, counter)
    /\ IF ~PathExists(fs_files, fs_dirs, new_path')
       THEN upc' = "returned" /\ counter' = counter
       ELSE upc' = "loop" /\ counter' = counter + 1
    /\ UNCHANGED uniqueFrame

UniqueNext == UniqueEntry \/ UniqueTurn

SpecUnique == UniqueInit /\ [][UniqueNext]_vars

\* the call is not stopped: it runs as long as it has a step to take
SpecUniqueLive == SpecUnique /\ WF_vars(UniqueNext)

----------------------------------------------------------------------------
(* SpecNorm: the normalizer applied to a name, then to its own result *)

MaxNameLen == 4

NormAlphabet == {Ord("a"), Ord("B"), Ord("."), Ord("1"), Ord("_"), Ord(" ")}

RECURSIVE StringsUpTo(_, _)
StringsUpTo(alphabet, n) ==
    IF n = 0 THEN {<<>>}
    ELSE LET shorter == StringsUpTo(alphabet, n - 1)
         IN shorter \cup {Append(s, c) : s \in shorter, c \in alphabet}

NormInit ==
    /\ nf \in StringsUpTo(NormAlphabet, MaxNameLen) \ {<<>>}
    /\ key1 = <<>>
    /\ key2 = <<>>
    /\ npc = "name"
    /\ FolderIdle

Normalize ==
    /\ npc = "name"
    /\ key1' = get_file_base_name(nf)
    /\ npc' = "once"
    /\ UNCHANGED <<nf, key2>>
    /\ UNCHANGED <<fsVars, startVars, pc, argVars, planVars, loopVars, flattenVars,
                   workers, patterns, uniqueVars>>

Renormalize ==
    /\ npc = "once"
    /\ key2' = get_file_base_name(key1)
    /\ npc' = "twice"
    /\ UNCHANGED <<nf, key1>>
    /\ UNCHANGED <<fsVars, startVars, pc, argVars, planVars, loopVars, flattenVars,
                   workers, patterns, uniqueVars>>

NormNext == Normalize \/ Renormalize

SpecNorm == NormInit /\ [][NormNext]_vars

----------------------------------------------------------------------------
(* Properties of the grouping plan                                           *)

\* the plan is made: unique_groups holds the final mapping
PlanReady == task = "organize" /\ pc \in {"dirs", "moving", "done"}

\* how many times file f is listed in a mapping
TimesListed(f, mapping) ==
    Cardinality({ij \in UNION {{<<i, j>> : j \in DOMAIN mapping[i][2]} : i \in DOMAIN mapping} :
                    mapping[ij[1]][2][ij[2]] = f})

\* C1: when the final mapping is built, every listed file name is in exactly
\* one of its file lists, also when a group is itself named "Miscellaneous"
\* or two groups get one name.
Coverage ==
    PlanReady => \A f \in SeqSet(file_names) : TimesListed(f, unique_groups) = 1

\* the clusters that are output, in the order they are produced, and the name
\* each of them is given
OutputClusters ==
    SelectSeq(similarity_groups, LAMBDA g : Len(g[2]) >= min_files_per_group)
ClusterName(g) == GroupName(g[1], g[2], file_names)
SameName(clusters, i) == {j \in DOMAIN clusters : ClusterName(clusters[j]) = ClusterName(clusters[i])}

\* C2: when k >= 2 clusters yield one name N, the final mapping has k entries
\* for them, N, "N 2", "N 3", ... in the order the clusters are produced, each
\* with the files of its own cluster, and no two keys of the mapping are equal.
NameDisambiguation ==
    PlanReady =>
        /\ Cardinality(DictKeys(unique_groups)) = Len(unique_groups)
        /\ \A i \in DOMAIN OutputClusters :
              LET same == SameName(OutputClusters, i)
                  rank == Cardinality({j \in same : j <= i})
                  key == IF rank = 1 THEN ClusterName(OutputClusters[i])
                         ELSE ClusterName(OutputClusters[i]) \o <<SPACE>> \o DecStr(rank)
              IN Cardinality(same) >= 2 =>
                    /\ DictHas(unique_groups, key)
                    /\ DictGet(unique_groups, key) = OutputClusters[i][2]

\* the whole plan, as a function of the listing and of the three parameters
\* that the grouping reads
PlanOf(files, thr, maxg, minf) ==
    UniqueGroups(
        WithMiscellaneous(
            NamedGroups(WithPatternGroups(find_similar_files(files, thr), files, maxg, minf),
                        files, minf, <<>>),
            files))

\* C3: the mapping group_files_by_similarity computes is the same with
\* dry_run True and False (when it has been computed it is the plan of the
\* listing and the parameters, whatever dry_run is), and with dry_run True
\* the files and directories of the folder stay as they were at the call.
DryRunPurity ==
    /\ task = "organize" /\ pc = "dirs" =>
          unique_groups = PlanOf(file_names, similarity_threshold, max_groups,
                                 min_files_per_group)
    /\ task = "organize" /\ dry_run =>
          fs_files = fs_files0 /\ fs_dirs = fs_dirs0

\* a dry run to its end, over a folder in which a destination is taken: a
\* group directory of the plan exists and holds a file named like one planned
\* into it
DryRunWitness ==
    /\ task = "organize" /\ pc = "done" /\ dry_run
    /\ Len(file_infos) >= 2
    /\ \E i \in DOMAIN file_infos :
          <<<<file_infos[i][2]>>, file_infos[i][1]>> \in DOMAIN fs_files
    /\ \E i \in DOMAIN unique_groups : <<unique_groups[i][1]>> \notin fs_dirs

\* the clusters of the three passes: those of find_similar_files and the
\* pattern groups before the small ones are dropped
AllClusters ==
    {similarity_groups[i][2] : i \in DOMAIN similarity_groups}
    \cup {pattern_groups[i][2] : i \in DOMAIN pattern_groups}

\* C4: every group of the final mapping but "Miscellaneous" has at least
\* min_files_per_group files, and the files of a cluster smaller than that are
\* no group of their own: each of them is listed in a group of the mapping
\* that is another, later group or "Miscellaneous".
MinimumSize ==
    PlanReady =>
        /\ \A i \in DOMAIN unique_groups :
              unique_groups[i][1] # Miscellaneous =>
                  Len(unique_groups[i][2]) >= min_files_per_group
        /\ \A c \in AllClusters :
              Len(c) < min_files_per_group =>
                  \A f \in SeqSet(c) :
                      \E i \in DOMAIN unique_groups :
                          /\ f \in SeqSet(unique_groups[i][2])
                          /\ unique_groups[i][1] = Miscellaneous
                             \/ unique_groups[i][2] # c

\* a plan made with min_files_per_group 3 and a cluster of two files, which
\* are listed under "Miscellaneous"
MinimumSizeWitness ==
    /\ PlanReady
    /\ min_files_per_group = 3
    /\ Len(file_names) = 3
    /\ \E i \in DOMAIN similarity_groups :
          /\ Len(similarity_groups[i][2]) = 2
          /\ DictHas(unique_groups, Miscellaneous)
          /\ SeqSet(similarity_groups[i][2]) \subseteq SeqSet(DictGet(unique_groups, Miscellaneous))

\* the files of the listing that have key k
WithKey(k) == {f \in SeqSet(file_names) : get_file_base_name(f) = k}
SharedKeys ==
    {k \in {get_file_base_name(f) : f \in SeqSet(file_names)} :
        k # <<>> /\ Cardinality(WithKey(k)) >= 2}

\* C5: after find_similar_files, every non-empty key that two or more files
\* share has one cluster, made of exactly the files with that key and keyed by
\* the smallest of them; every other cluster holds only files whose key is
\* unique or empty.
ExactKeyGrouping ==
    task = "organize" /\ pc = "patterns" =>
        /\ \A k \in SharedKeys :
              \E i \in DOMAIN similarity_groups :
                  /\ SeqSet(similarity_groups[i][2]) = WithKey(k)
                  /\ Len(similarity_groups[i][2]) = Cardinality(WithKey(k))
                  /\ similarity_groups[i][1] = MinStr(similarity_groups[i][2])
                  /\ \A j \in DOMAIN similarity_groups :
                        j # i => SeqSet(similarity_groups[j][2]) \cap WithKey(k) = {}
        /\ \A i \in DOMAIN similarity_groups :
              \/ \E k \in SharedKeys : SeqSet(similarity_groups[i][2]) = WithKey(k)
              \/ \A f \in SeqSet(similarity_groups[i][2]) :
                    get_file_base_name(f) \notin SharedKeys

\* find_similar_files has made an exact cluster whose smallest file is not the
\* first listed, and a file with another key is left out of it
ExactKeyWitness ==
    /\ task = "organize" /\ pc = "patterns"
    /\ \E k \in SharedKeys :
          /\ \E i \in DOMAIN similarity_groups :
                /\ SeqSet(similarity_groups[i][2]) = WithKey(k)
                /\ similarity_groups[i][1] # similarity_groups[i][2][1]
          /\ \E f \in SeqSet(file_names) :
                f \notin WithKey(k) /\ f \notin GroupedFiles(similarity_groups)

ExampleRun ==
    /\ PlanReady
    /\ file_names = ExampleFiles
    /\ similarity_threshold = <<7, 10>>
    /\ min_files_per_group = 2

\* C7: for the example listing with threshold 0.7 and min_files_per_group 2
\* the final mapping has three entries: the two vacation photos, the two
\* invoices, and "Miscellaneous" with random.txt alone.
EndToEndExample ==
    ExampleRun =>
        /\ Len(unique_groups) = 3
        /\ \E i \in DOMAIN unique_groups :
              /\ unique_groups[i][1] # Miscellaneous
              /\ unique_groups[i][2] = <<ExampleFiles[1], ExampleFiles[2]>>
        /\ \E i \in DOMAIN unique_groups :
              /\ unique_groups[i][1] # Miscellaneous
              /\ unique_groups[i][2] = <<ExampleFiles[3], ExampleFiles[4]>>
        /\ DictHas(unique_groups, Miscellaneous)
        /\ DictGet(unique_groups, Miscellaneous) = <<ExampleFiles[5]>>
        /\ DictHas(similarity_groups, ExampleFiles[1])
        /\ DictHas(similarity_groups, ExampleFiles[3])
        /\ get_file_base_name(ExampleFiles[1])
              = Str(<<"v","a","c","a","t","i","o","n"," ","p","h","o","t","o">>)
        /\ get_file_base_name(ExampleFiles[3]) = Str(<<"i","n","v","o","i","c","e">>)

ExampleWitness == ExampleRun /\ pc = "done" /\ ~dry_run

\* C9: the final mapping has at most max_groups groups other than
\* "Miscellaneous".
MaxGroupsCap ==
    PlanReady =>
        Cardinality({i \in DOMAIN unique_groups : unique_groups[i][1] # Miscellaneous})
            <= max_groups

\* C8: a move that the file system refuses is an error outcome of that file
\* and the loop goes on to the end of the batch, in group_files_by_similarity
\* and in flatten_directory: at the end every file of the batch has its
\* outcome, the refused ones are where they were and all others are moved.
PartialFailureTolerance ==
    /\ pc # "aborted"
    /\ task = "organize" /\ pc = "done" /\ ~dry_run =>
          /\ Len(outcomes) = Len(file_infos)
          /\ \A i \in DOMAIN outcomes :
                /\ outcomes[i][1] = file_infos[i][1]
                /\ outcomes[i][2] \in {"True", "Error"}
                /\ outcomes[i][2] = "Error" <=> <<Top, file_infos[i][1]>> \in DOMAIN fs_files
    /\ task = "flatten" /\ pc = "done" /\ ~dry_run =>
          /\ Len(outcomes) = Len(files_to_move)
          /\ moved_files + failed_files = Len(files_to_move)
          /\ \A i \in DOMAIN outcomes :
                /\ outcomes[i][1] = files_to_move[i][1]
                /\ outcomes[i][2] \in {"moved", "failed"}
                /\ outcomes[i][2] = "failed" <=> files_to_move[i][1] \in DOMAIN fs_files

\* a batch whose first move was refused and whose later moves were made
PartialFailureWitness ==
    /\ task = "organize" /\ pc = "done" /\ ~dry_run
    /\ Len(outcomes) >= 3
    /\ outcomes[1][2] = "Error"
    /\ \A i \in 2..Len(outcomes) : outcomes[i][2] = "True"

\* the same, in flatten_directory
FlattenFailureWitness ==
    /\ task = "flatten" /\ pc = "done" /\ ~dry_run
    /\ Len(outcomes) >= 2
    /\ outcomes[1][2] = "failed"
    /\ outcomes[2][2] = "moved"

----------------------------------------------------------------------------
(* Properties of the normalizer                                              *)

\* os.path.splitext finds no extension in k: no dot of k follows a character
\* that is not a dot
NoExtension(k) ==
    \A i \in DOMAIN k : k[i] = DOT => \A j \in 1..(i - 1) : k[j] = DOT

\* C6, as claimed: the key of a key is that key, whatever the file name.
NormalizationIdempotent == npc = "twice" => key2 = key1

\* C6, amended: the key of a key is that key when os.path.splitext finds no
\* extension in the key.
NormalizationIdempotentNoExtension ==
    npc = "twice" /\ NoExtension(key1) => key2 = key1

\* a name that normalizing changes, whose key has a space and no extension
NormalizationWitness ==
    /\ npc = "twice"
    /\ NoExtension(key1)
    /\ key1 # nf
    /\ \E i \in DOMAIN key1 : key1[i] = SPACE
    /\ key1[1] = DOT

----------------------------------------------------------------------------
(* Properties of the threads                                                 *)

\* the contents of the files of the folder
Contents(files) == {files[path] : path \in DOMAIN files}

\* no file has been replaced by a file moved onto it
NoFileOverwritten == Contents(fs_files) = Contents(fs_files0)

----------------------------------------------------------------------------
(* Properties of find_similar_files                                          *)

SimilarReturned == task = "find_similar_files" /\ pc = "returned"

\* the files that the exact pass leaves, in listing order
LeftForFuzzy ==
    SelectSeq(file_names, LAMBDA f : get_file_base_name(f) \notin SharedKeys)

\* the number of matched characters of two keys, over the sum of their
\* lengths, reaches the threshold: 2 * M / T >= thr, and 1 >= thr when T = 0
ReachesThreshold(k1, k2, thr) ==
    IF Len(k1) + Len(k2) = 0 THEN thr[1] <= thr[2]
    ELSE 2 * MatchCount(k1, k2) * thr[2] >= thr[1] * (Len(k1) + Len(k2))

\* |len k1 - len k2| <= min(len k1, len k2)
PassesPrefilter(k1, k2) ==
    /\ Len(k1) <= 2 * Len(k2)
    /\ Len(k2) <= 2 * Len(k1)

JoinsSeed(seed, f, thr) ==
    /\ PassesPrefilter(get_file_base_name(seed), get_file_base_name(f))
    /\ ReachesThreshold(get_file_base_name(seed), get_file_base_name(f), thr)

\* for each file left, the index of the seed whose cluster it is in: its own
\* when no earlier seed takes it, else the first earlier seed that it joins
SeedIndex(left, thr) ==
    LET seed[j \in DOMAIN left] ==
            LET takers == {i \in 1..(j - 1) :
                              seed[i] = i /\ JoinsSeed(left[i], left[j], thr)}
            IN IF takers = {} THEN j
               ELSE CHOOSE i \in takers : \A other \in takers : i <= other
    IN seed

\* the clusters of two or more files, each with its smallest name as key
ExpectedFuzzyClusters(left, thr) ==
    LET seed == SeedIndex(left, thr)
        Members(i) ==
            LET at == SelectSeq([j \in DOMAIN left |-> j], LAMBDA j : seed[j] = i)
            IN [k \in DOMAIN at |-> left[at[k]]]
    IN {<<MinStr(Members(i)), Members(i)>> :
            i \in {j \in DOMAIN left : seed[j] = j /\ Len(Members(j)) >= 2}}

\* the clusters returned that hold files the exact pass left
ReturnedFuzzyClusters ==
    {similarity_groups[i] : i \in {j \in DOMAIN similarity_groups :
        get_file_base_name(similarity_groups[j][2][1]) \notin SharedKeys}}

\* C11: the fuzzy pass returns exactly these clusters: each file left by the
\* exact pass that no earlier seed has taken seeds a cluster; a later file
\* not yet taken joins it exactly when it passes the length prefilter and its
\* ratio to the seed is at least the threshold; a file joins one cluster only;
\* a cluster is returned, keyed by its smallest name, when it has two or
\* more files.
FuzzyPass ==
    SimilarReturned =>
        ReturnedFuzzyClusters = ExpectedFuzzyClusters(LeftForFuzzy, similarity_threshold)

\* a cluster with a file whose ratio to the seed is the threshold itself,
\* and a file left alone whose ratio to the seed is below it although its
\* ratio to that member reaches it
FuzzyPassWitness ==
    /\ SimilarReturned
    /\ \E i \in DOMAIN similarity_groups :
          LET members == similarity_groups[i][2]
              k1 == get_file_base_name(members[1])
          IN /\ members[1] \in SeqSet(LeftForFuzzy)
             /\ \E b \in 2..Len(members) :
                   LET k2 == get_file_base_name(members[b])
                   IN /\ 2 * MatchCount(k1, k2) * similarity_threshold[2]
                            = similarity_threshold[1] * (Len(k1) + Len(k2))
                      /\ \E f \in SeqSet(file_names) \ GroupedFiles(similarity_groups) :
                            /\ JoinsSeed(members[b], f, similarity_threshold)
                            /\ ~JoinsSeed(members[1], f, similarity_threshold)

----------------------------------------------------------------------------
(* Properties of the pattern step                                            *)

\* the patterns that are tried, in order of rank
Considered == Prefix(patterns, max_groups)

\* the ranks of the tried patterns that occur in the lower-cased file name
MatchingRanks(f) ==
    {i \in DOMAIN Considered : Contains(Lower(f), Considered[i][1])}

\* the pattern of the best rank among them
BestPattern(f) ==
    Considered[CHOOSE i \in MatchingRanks(f) : \A j \in MatchingRanks(f) : i <= j][1]

\* C12: every file is in the group of the highest-ranked tried pattern that
\* occurs in its lower-cased name, whatever its place in the list, and in
\* that group only; a file in which no tried pattern occurs is in no pattern
\* group.
AssignmentByRank ==
    task = "patterns" /\ pc = "assigned" =>
        /\ \A f \in SeqSet(file_names) :
              TimesListed(f, pattern_groups) = IF MatchingRanks(f) = {} THEN 0 ELSE 1
        /\ \A i \in DOMAIN pattern_groups :
              SeqSet(pattern_groups[i][2]) =
                  {f \in SeqSet(file_names) :
                      /\ MatchingRanks(f) # {}
                      /\ sanitize_folder_name(BestPattern(f)) = pattern_groups[i][1]}

\* a file in which two tried patterns occur, the first of the files of its
\* group, while the first file of the list is in another group
AssignmentByRankWitness ==
    /\ task = "patterns" /\ pc = "assigned"
    /\ Len(pattern_groups) >= 2
    /\ \E f \in SeqSet(file_names) :
          /\ Cardinality(MatchingRanks(f)) >= 2
          /\ \E i \in DOMAIN pattern_groups :
                /\ pattern_groups[i][2][1] = f
                /\ Len(pattern_groups[i][2]) >= 2
                /\ \E j \in DOMAIN pattern_groups :
                      j # i /\ file_names[1] \in SeqSet(pattern_groups[j][2])

\* the files whose lower-cased name holds the pattern
FilesHolding(pattern) ==
    {f \in SeqSet(file_names) : Contains(Lower(f), pattern)}

\* C13: every pattern that extract_common_patterns returns occurs in two or
\* more of the file names, and its score is that of a count equal to the
\* number of file names it occurs in.
PatternFrequency ==
    task = "patterns" /\ pc = "extracted" =>
        \A i \in DOMAIN patterns :
            /\ Cardinality(FilesHolding(patterns[i][1])) >= 2
            /\ patterns[i][2] = Score(patterns[i][1],
                                      Cardinality(FilesHolding(patterns[i][1])),
                                      Len(file_names))

----------------------------------------------------------------------------
(* Properties of get_unique_filename                                         *)

\* what the call returns: destination_path from the first test, new_path
\* from the loop
UniqueReturned == IF counter = 0 THEN destination_path ELSE new_path

\* a file or a directory has this path
Taken(path) ==
    path \in DOMAIN fs_files \/ path[1] \o <<path[2]>> \in fs_dirs

\* "<name> (n)<ext>" in the directory of destination_path
Suffixed(n) ==
    <<destination_path[1],
      IF destination_path[2] = NTxt THEN Numbered_txt(n) ELSE Numbered_bare(n)>>

UniqueReturnsFree ==
    upc = "returned" =>
        /\ ~Taken(UniqueReturned)
        /\ ~Taken(destination_path) => UniqueReturned = destination_path
        /\ Taken(destination_path) =>
              \E n \in 1..(Cardinality(DOMAIN fs_files) + Cardinality(fs_dirs) + 1) :
                  /\ UniqueReturned = Suffixed(n)
                  /\ \A m \in 1..(n - 1) : Taken(Suffixed(m))
        /\ UniqueReturned = get_unique_filename(fs_files, fs_dirs, destination_path)

\* C14: get_unique_filename returns its argument when that path does not
\* exist, and else "<name> (n)<ext>" in the same directory for the smallest
\* n >= 1 whose path does not exist; what it returns does not exist; and the
\* call returns.
UniqueFilename == []UniqueReturnsFree /\ <>(upc = "returned")

\* n.txt, "n (1).txt" and "n (2).txt" exist and the call on n.txt has
\* returned "n (3).txt"
UniqueFilenameWitness ==
    /\ upc = "returned"
    /\ destination_path = <<Top, NTxt>>
    /\ Taken(<<Top, Str(<<"n"," ","(","1",")",".","t","x","t">>)>>)
    /\ Taken(<<Top, Str(<<"n"," ","(","2",")",".","t","x","t">>)>>)
    /\ UniqueReturned = <<Top, Str(<<"n"," ","(","3",")",".","t","x","t">>)>>

----------------------------------------------------------------------------
(* Properties of flatten_directory                                           *)

\* the names "<name> (n)<ext>" of a file name
SuffixedNames(name) ==
    {NewPath(<<Top, name>>, n)[2] : n \in 1..Cardinality(DOMAIN fs_files0)}

\* C15: after flatten_directory in live mode with no failed move, every file
\* that was in a subdirectory is in the main directory under its name or a
\* " (n)" name, the files of the main directory are where they were, no file
\* was overwritten (as many files as before, each with its content), and no
\* file is left in a subdirectory; with dry_run nothing is moved and no
\* directory is removed.
FlattenComplete ==
    /\ task = "flatten" /\ pc = "done" /\ ~dry_run /\ failed_files = 0 =>
          /\ \A path \in DOMAIN fs_files : path[1] = Top
          /\ Cardinality(DOMAIN fs_files) = Cardinality(DOMAIN fs_files0)
          /\ {fs_files[path] : path \in DOMAIN fs_files} = DOMAIN fs_files0
          /\ \A old \in DOMAIN fs_files0 :
                IF old[1] = Top
                THEN old \in DOMAIN fs_files /\ fs_files[old] = old
                ELSE \E path \in DOMAIN fs_files :
                        /\ fs_files[path] = old
                        /\ path[2] = old[2] \/ path[2] \in SuffixedNames(old[2])
    /\ task = "flatten" /\ dry_run =>
          fs_files = fs_files0 /\ fs_dirs = fs_dirs0

\* rep-a1.txt was in the main directory and in two subdirectories, and the
\* three files are in the main directory as rep-a1.txt, "rep-a1 (1).txt" and
\* "rep-a1 (2).txt"
FlattenCompleteWitness ==
    /\ task = "flatten" /\ pc = "done" /\ ~dry_run /\ failed_files = 0
    /\ Cardinality({old \in DOMAIN fs_files0 : old[2] = RepA1}) = 3
    /\ {<<Top, RepA1>>,
        <<Top, Str(<<"r","e","p","-","a","1"," ","(","1",")",".","t","x","t">>)>>,
        <<Top, Str(<<"r","e","p","-","a","1"," ","(","2",")",".","t","x","t">>)>>}
           \subseteq DOMAIN fs_files
    /\ fs_dirs = {}

----------------------------------------------------------------------------
(* Properties of the length prefilter                                        *)

\* the keys of the names that may be listed
PoolKeys == {get_file_base_name(f) : f \in SimilarPool}

\* the prefilter skips the pair although its ratio reaches the threshold
SkippedThoughSimilar(k1, k2, thr) ==
    TooDifferentInLength(k1, k2) /\ ReachesThreshold(k1, k2, thr)

\* the prefilter skips no pair of listed files whose ratio reaches thr
SkipsNoSimilarPair(thr) ==
    \A f, g \in SeqSet(file_names) :
        ~SkippedThoughSimilar(get_file_base_name(f), get_file_base_name(g), thr)

\* some pair of keys is skipped although its ratio reaches thr
CanSkipSimilarPair(thr) ==
    \E k1, k2 \in PoolKeys : SkippedThoughSimilar(k1, k2, thr)

\* C16, as claimed: with a threshold above 2/3 the prefilter skips no pair
\* whose ratio reaches the threshold, and with a threshold of 2/3 or less it
\* can skip such a pair.
PrefilterNeutralAboveTwoThirds ==
    SimilarReturned =>
        IF 3 * similarity_threshold[1] > 2 * similarity_threshold[2]
        THEN SkipsNoSimilarPair(similarity_threshold)
        ELSE CanSkipSimilarPair(similarity_threshold)

\* C16, amended: every pair the prefilter skips has a ratio 2 * M / T below
\* 2/3 (3 * M < T), so that with a threshold of 2/3 or more, 2/3 itself
\* included, it skips no pair whose ratio reaches the threshold; with a
\* threshold below 2/3 it can skip such a pair.
PrefilterNeutralFromTwoThirds ==
    SimilarReturned =>
        /\ \A f, g \in SeqSet(file_names) :
              LET k1 == get_file_base_name(f)
                  k2 == get_file_base_name(g)
              IN TooDifferentInLength(k1, k2) =>
                    3 * MatchCount(k1, k2) < Len(k1) + Len(k2)
        /\ IF 3 * similarity_threshold[1] >= 2 * similarity_threshold[2]
           THEN SkipsNoSimilarPair(similarity_threshold)
           ELSE CanSkipSimilarPair(similarity_threshold)

\* the threshold is 2/3 and two listed files whose keys share a character,
\* one key more than twice as long as the other, were skipped and are in no
\* cluster
PrefilterWitness ==
    /\ SimilarReturned
    /\ similarity_threshold = <<2, 3>>
    /\ \E f, g \in SeqSet(file_names) :
          /\ TooDifferentInLength(get_file_base_name(f), get_file_base_name(g))
          /\ MatchCount(get_file_base_name(f), get_file_base_name(g)) >= 1
          /\ ReachesThreshold(get_file_base_name(f), get_file_base_name(g), <<1, 2>>)
          /\ {f, g} \cap GroupedFiles(similarity_groups) = {}

----------------------------------------------------------------------------
(* Properties of the files with an empty key                                 *)

\* the listed files whose key is empty, in listing order
EmptyKeyFiles ==
    SelectSeq(file_names, LAMBDA f : get_file_base_name(f) = <<>>)

\* C17: the files whose key is empty are in no cluster of the exact pass, and
\* when there are two or more of them the fuzzy pass puts them all, and no
\* other file, into one cluster that starts with the first of them in listing
\* order, for every threshold up to 1; a single such file is in no cluster.
EmptyKeysCluster ==
    SimilarReturned =>
        IF Len(EmptyKeyFiles) >= 2
        THEN /\ DictHas(similarity_groups, MinStr(EmptyKeyFiles))
             /\ DictGet(similarity_groups, MinStr(EmptyKeyFiles)) = EmptyKeyFiles
             /\ \A f \in SeqSet(EmptyKeyFiles) : TimesListed(f, similarity_groups) = 1
        ELSE SeqSet(EmptyKeyFiles) \cap GroupedFiles(similarity_groups) = {}

\* with threshold 1, two files with an empty key and a file between them are
\* listed, and the two are a cluster whose key is not its first file
EmptyKeysWitness ==
    /\ SimilarReturned
    /\ similarity_threshold = <<1, 1>>
    /\ Len(file_names) = 3
    /\ Len(EmptyKeyFiles) = 2
    /\ get_file_base_name(file_names[2]) # <<>>
    /\ \E i \in DOMAIN similarity_groups :
          /\ similarity_groups[i][2] = EmptyKeyFiles
          /\ similarity_groups[i][1] # EmptyKeyFiles[1]

====
